---- MODULE Spec2Model ----
(***************************************************************************)
(* Model of splice_audio.py: one splice run of main(), from the playlist   *)
(* check through the Audacity command loop to the reconciliation pass and  *)
(* the two output playlists.  Text is modelled as sequences of one-        *)
(* character strings, so that the regular expressions, str(), int() and    *)
(* slugify() are computed rather than assumed.                             *)
(***************************************************************************)
EXTENDS Integers, Sequences, FiniteSets, TLC

(***************************************************************************)
(* Bounds and program constants                                            *)
(***************************************************************************)
\* Largest number of lines after the first line of the input playlist.
MaxLines == 3

\* Largest duration, in seconds, of the track of a generated one-track playlist.
MaxDuration == 700

\* Largest number of characters after "#EXTINF:5," in a generated track line.
MaxBody == 5

\* for zoom in range(7)
ZoomCount == 7

(***************************************************************************)
(* Text helpers                                                            *)
(***************************************************************************)
NL == "\n"

Digits == <<"0", "1", "2", "3", "4", "5", "6", "7", "8", "9">>

UpperCase == <<"A", "B", "C", "D", "E", "F", "G", "H", "I", "J", "K", "L", "M",
               "N", "O", "P", "Q", "R", "S", "T", "U", "V", "W", "X", "Y", "Z">>

LowerCase == <<"a", "b", "c", "d", "e", "f", "g", "h", "i", "j", "k", "l", "m",
               "n", "o", "p", "q", "r", "s", "t", "u", "v", "w", "x", "y", "z">>

Range(s) == {s[i] : i \in DOMAIN s}

IndexOf(s, c) == CHOOSE i \in DOMAIN s : s[i] = c

IsDigit(c) == c \in Range(Digits)

\* s[a..b], empty when b < a
Slice(s, a, b) == IF b < a THEN <<>> ELSE SubSeq(s, a, b)

\* str.startswith
StartsWith(s, p) == Len(s) >= Len(p) /\ SubSeq(s, 1, Len(p)) = p

\* str.endswith
EndsWith(s, p) == Len(s) >= Len(p) /\ SubSeq(s, Len(s) - Len(p) + 1, Len(s)) = p

\* p occurs in s at position i
MatchAt(s, p, i) == i >= 1 /\ i + Len(p) - 1 <= Len(s) /\ SubSeq(s, i, i + Len(p) - 1) = p

\* str.strip('\n'): drops the newlines at both ends
RECURSIVE StripNL(_)
StripNL(s) ==
    IF s = <<>> THEN s
    ELSE IF Head(s) = NL THEN StripNL(Tail(s))
    ELSE IF s[Len(s)] = NL THEN StripNL(SubSeq(s, 1, Len(s) - 1))
    ELSE s

\* str(n) for an integer
RECURSIVE NatToStr(_)
NatToStr(n) ==
    IF n < 10 THEN <<Digits[n + 1]>>
    ELSE NatToStr(n \div 10) \o <<Digits[(n % 10) + 1]>>

IntToStr(n) == IF n < 0 THEN <<"-">> \o NatToStr(0 - n) ELSE NatToStr(n)

RECURSIVE DigitsToNat(_)
DigitsToNat(s) ==
    IF s = <<>> THEN 0
    ELSE 10 * DigitsToNat(SubSeq(s, 1, Len(s) - 1)) + (IndexOf(Digits, s[Len(s)]) - 1)

\* str.strip(): int() ignores blanks around the number
RECURSIVE StripBlank(_)
StripBlank(s) ==
    IF s = <<>> THEN s
    ELSE IF Head(s) \in {" ", NL} THEN StripBlank(Tail(s))
    ELSE IF s[Len(s)] \in {" ", NL} THEN StripBlank(SubSeq(s, 1, Len(s) - 1))
    ELSE s

Unsigned(s) == IF s # <<>> /\ Head(s) \in {"+", "-"} THEN Tail(s) ELSE s

\* int(text) raises ValueError unless text is an optionally signed run of digits
IntParses(s) ==
    LET u == Unsigned(StripBlank(s))
    IN  u # <<>> /\ \A i \in DOMAIN u : IsDigit(u[i])

\* int(text)
StrToInt(s) ==
    LET t == StripBlank(s)
    IN  IF t # <<>> /\ Head(t) = "-" THEN 0 - DigitsToNat(Unsigned(t))
        ELSE DigitsToNat(Unsigned(t))

Min(S) == CHOOSE x \in S : \A y \in S : x <= y

(***************************************************************************)
(* Regular expressions of the playlist reader                              *)
(***************************************************************************)
\* Ends q of the lazy group of  open(.+?)close  when open matches at p:
\* the group line[p+Len(open) .. q-1] has at least one character and no newline.
LazyEnds(line, open, close, p) ==
    {q \in (p + Len(open) + 1)..Len(line) :
        /\ MatchAt(line, close, q)
        /\ \A k \in (p + Len(open))..(q - 1) : line[k] # NL}

LazyStarts(line, open, close) ==
    {p \in DOMAIN line : MatchAt(line, open, p) /\ LazyEnds(line, open, close, p) # {}}

\* re.search('open(.+?)close', line) is not None
LazyMatches(line, open, close) == LazyStarts(line, open, close) # {}

\* re.search('open(.+?)close', line).group(1): leftmost start, shortest group
LazyGroup(line, open, close) ==
    LET p == Min(LazyStarts(line, open, close))
        q == Min(LazyEnds(line, open, close, p))
    IN  Slice(line, p + Len(open), q - 1)

\* Where '$' matches: at the end of the text and before a final newline.
DollarEnds(line) ==
    {Len(line)} \cup (IF line # <<>> /\ line[Len(line)] = NL THEN {Len(line) - 1} ELSE {})

\* Starts p of  '- ([^\n]+)$'
TailStarts(line) ==
    {p \in DOMAIN line :
        /\ MatchAt(line, <<"-", " ">>, p)
        /\ \E e \in DollarEnds(line) :
              e >= p + 2 /\ \A k \in (p + 2)..e : line[k] # NL}

TailMatches(line) == TailStarts(line) # {}

\* The group taken from the last '- ' of the line instead of the first.
TailGroupLast(line) ==
    LET p == CHOOSE x \in TailStarts(line) : \A y \in TailStarts(line) : y <= x
    IN  Slice(line, p + 2, IF line[Len(line)] = NL THEN Len(line) - 1 ELSE Len(line))

\* re.search('- ([^\n]+)$', line).group(1)
TailGroup(line) ==
    LET p == Min(TailStarts(line))
        e == CHOOSE e \in DollarEnds(line) :
                 e >= p + 2 /\ \A k \in (p + 2)..e : line[k] # NL
    IN  Slice(line, p + 2, e)

(***************************************************************************)
(* class Song                                                              *)
(***************************************************************************)
\* Song.m3u_track_header
m3u_track_header == <<"#", "E", "X", "T", "I", "N", "F", ":">>

\* The file name a Song holds until set_file_name is called.
NoFile == <<"No file defined for track">>

\* Song()
NewSong ==
    [artist |-> <<"No artist">>, file |-> NoFile, number |-> 0, runtime |-> 0,
     track |-> <<"No track name">>]

\* The parsing branch of the reader loop can run without raising.
SongLineParses(line) ==
    /\ LazyMatches(line, <<":">>, <<",">>)
    /\ \E duration \in {LazyGroup(line, <<":">>, <<",">>)} : IntParses(duration)
    /\ LazyMatches(line, <<",">>, <<" ", "-">>)
    /\ TailMatches(line)

\* The Song the reader builds from a track line, given the running track number.
ParseSong(line, number) ==
    CHOOSE song \in
        {[NewSong EXCEPT !.runtime = StrToInt(duration), !.artist = artist,
                         !.track = title, !.number = number] :
            duration \in {LazyGroup(line, <<":">>, <<",">>)},
            artist \in {LazyGroup(line, <<",">>, <<" ", "-">>)},
            title \in {TailGroup(line)}} : TRUE

\* The reader loop of main() over the lines of a playlist, from the running track
\* number on: the Songs it appends, and whether it ends without raising.
RECURSIVE ReadSongs(_, _)
ReadSongs(lines, number) ==
    IF lines = <<>> THEN [ok |-> TRUE, songs |-> <<>>]
    ELSE IF ~StartsWith(Head(lines), m3u_track_header) THEN ReadSongs(Tail(lines), number)
    ELSE IF ~SongLineParses(Head(lines)) THEN [ok |-> FALSE, songs |-> <<>>]
    ELSE LET rest == ReadSongs(Tail(lines), number + 1)
         IN  [ok |-> rest.ok,
              songs |-> IF rest.ok THEN <<ParseSong(Head(lines), number + 1)>> \o rest.songs
                        ELSE <<>>]

\* The entry with title and artist in each other's place.
ReprTitleFirst(song) ==
    << m3u_track_header \o IntToStr(song.runtime) \o <<",">> \o song.track
          \o <<" ", "-", " ">> \o song.artist \o <<NL>>,
       song.file \o <<NL>> >>

\* Song.__repr__, as the two lines it writes
Repr(song) ==
    << m3u_track_header \o IntToStr(song.runtime) \o <<",">> \o song.artist
          \o <<" ", "-", " ">> \o song.track \o <<NL>>,
       song.file \o <<NL>> >>

(***************************************************************************)
(* get_string_runtime                                                      *)
(***************************************************************************)
\* int(seconds / 60): the quotient truncated toward zero
TruncDiv60(seconds) == IF seconds < 0 THEN 0 - ((0 - seconds) \div 60) ELSE seconds \div 60

\* The seconds are not padded to two digits.
get_string_runtime_unpadded(seconds) ==
    IntToStr(TruncDiv60(seconds)) \o <<":">> \o IntToStr(seconds % 60)

get_string_runtime(seconds) ==
    LET run_min == IntToStr(TruncDiv60(seconds))
        run_seconds == seconds % 60
    IN  IF run_seconds < 10 THEN run_min \o <<":", "0">> \o IntToStr(run_seconds)
        ELSE run_min \o <<":">> \o IntToStr(run_seconds)

(***************************************************************************)
(* Output file names                                                       *)
(***************************************************************************)
Lower(c) == IF c \in Range(UpperCase) THEN LowerCase[IndexOf(UpperCase, c)] ELSE c

\* slugify keeps lower-case letters and digits and turns anything else into '-'
SlugChar(c) ==
    IF Lower(c) \in Range(LowerCase) \cup Range(Digits) THEN Lower(c) ELSE "-"

RECURSIVE SlugMap(_)
SlugMap(s) == IF s = <<>> THEN <<>> ELSE <<SlugChar(Head(s))>> \o SlugMap(Tail(s))

\* runs of '-' become one '-'
RECURSIVE Collapse(_)
Collapse(s) ==
    IF Len(s) < 2 THEN s
    ELSE IF s[1] = "-" /\ s[2] = "-" THEN Collapse(Tail(s))
    ELSE <<Head(s)>> \o Collapse(Tail(s))

RECURSIVE StripDash(_)
StripDash(s) ==
    IF s = <<>> THEN s
    ELSE IF Head(s) = "-" THEN StripDash(Tail(s))
    ELSE IF s[Len(s)] = "-" THEN StripDash(SubSeq(s, 1, Len(s) - 1))
    ELSE s

\* slugify(text)
slugify(text) == StripDash(Collapse(SlugMap(text)))

\* str.replace(a, b) for single characters
RECURSIVE Replace(_, _, _)
Replace(s, a, b) ==
    IF s = <<>> THEN <<>>
    ELSE <<IF Head(s) = a THEN b ELSE Head(s)>> \o Replace(Tail(s), a, b)

\* temp_wav_name of a track title
WavName(track) ==
    LET temp_wav_name == Replace(slugify(track), " ", "_") \o <<".", "w", "a", "v">>
    IN  IF temp_wav_name[1] = "n" THEN <<"_">> \o temp_wav_name ELSE temp_wav_name

\* The output directory of the run, created empty by create_directory.
output_directory == "audacity_spliced/"

\* os.path.join(output_directory, name)
PathJoin(dir, name) == <<dir>> \o name

(***************************************************************************)
(* Inputs of a run                                                         *)
(***************************************************************************)
\* "#EXTINF:" duration "," artist " - " title newline
TrackLine(duration, artist, title) ==
    m3u_track_header \o duration \o <<",">> \o artist \o <<" ", "-", " ">> \o title \o <<NL>>

\* Lines a playlist may hold after its first line.
BodyLines ==
    { TrackLine(<<"5">>, <<"a">>, <<"S", "o", "n", "g">>),
      TrackLine(<<"7", "0">>, <<"b">>, <<"s", "o", "n", "g">>),
      TrackLine(<<"9">>, <<"c">>, <<"n", "u">>),
      m3u_track_header \o <<"8", " ", "x", NL>>,
      <<"a", ".", "w", "a", "v", NL>> }

\* First lines a playlist may hold.
FirstLines ==
    { <<"#", "E", "X", "T", "M", "3", "U", NL>>,
      <<"#", "E", "X", "T", "M", "3", "U", "8", NL>> }

RECURSIVE SeqsUpTo(_, _)
SeqsUpTo(S, n) ==
    IF n = 0 THEN {<<>>}
    ELSE LET shorter == SeqsUpTo(S, n - 1)
         IN  shorter \cup {Append(q, x) : q \in {r \in shorter : Len(r) = n - 1}, x \in S}

\* Playlist files as readline sees them: a sequence of lines.
PlaylistTexts ==
    {<<>>} \cup {<<h>> \o body : h \in FirstLines, body \in SeqsUpTo(BodyLines, MaxLines)}

\* Names of the file the user may select.
PlaylistNames ==
    { <<"p", ".", "m", "3", "u", "8">>, <<"p", ".", "m", "3", "u">>, <<"p", ".", "t", "x", "t">> }

\* Answers the operator may type at a track prompt.
Choices == { <<>>, <<"q">> }

(***************************************************************************)
(* State                                                                   *)
(***************************************************************************)
VARIABLES
    pc,                 \* position of main()
    fatal,              \* why the run ended early: "" | "playlist" | "directory" | "parse" | "tag"
    playlist_file,      \* name of the selected playlist file
    playlist_text,      \* its lines
    audacity,           \* TRUE once pipeclient.PipeClient() was created
    log,                \* editor commands written and console prompts/answers, in order
    line_no,            \* number of the line the reader holds
    track_number,
    input_songs_list,
    song_idx,           \* position of the running for-loop in input_songs_list
    confirmed,          \* numbers of the songs whose prompt was answered with other than 'q'
    quit_at,            \* number of the song at whose prompt 'q' was typed, 0 if none
    disk,               \* existing files: path -> [audio, tags]
    output_playlist,    \* [exists, lines]
    written,            \* numbers of the songs written to the output playlist, in order
    tagged,             \* numbers of the songs whose tags were saved
    error_songs_list,
    error_playlist,     \* [exists, lines]
    export_lost         \* numbers of the songs whose export wrote no file

vars == <<pc, fatal, playlist_file, playlist_text, audacity, log, line_no, track_number,
          input_songs_list, song_idx, confirmed, quit_at, disk, output_playlist, written,
          tagged, error_songs_list, error_playlist, export_lost>>

\* m3u_playlist_header
m3u_playlist_header == <<"#", "E", "X", "T", "M", "3", "U">>

NoTags == [t \in {} |-> <<>>]

\* A file some other program left behind, with no audio of this run.
ForeignFile == [audio |-> 0, tags |-> NoTags]

NoPlaylist == [exists |-> FALSE, lines |-> <<>>]

\* One entry of the log.
Event(op, track, arg) == [op |-> op, track |-> track, arg |-> arg]

EditorOps ==
    {"Close", "ImportAudio", "Select", "ZoomSel", "ZoomIn", "SkipSelEnd",
     "SelPrevClipBoundaryToCursor", "Split", "Export2", "Delete", "Align_StartToZero"}

\* The file holds no more lines: readline returns ''.
AtEof == line_no > Len(playlist_text)

\* input_playlist.readline() / test_playlist.readline()
readline(text, n) == IF n > Len(text) THEN <<>> ELSE text[n]

\* os.path.exists
exists(path) == path \in DOMAIN disk

Init ==
    /\ pc = "start"
    /\ fatal = ""
    /\ playlist_file \in PlaylistNames
    /\ playlist_text \in PlaylistTexts
    /\ audacity = FALSE
    /\ log = <<>>
    /\ line_no = 0
    /\ track_number = 0
    /\ input_songs_list = <<>>
    /\ song_idx = 0
    /\ confirmed = {}
    /\ quit_at = 0
    /\ disk \in {[p \in {} |-> ForeignFile], [p \in {NoFile} |-> ForeignFile]}
    /\ output_playlist = NoPlaylist
    /\ written = <<>>
    /\ tagged = {}
    /\ error_songs_list = <<>>
    /\ error_playlist = NoPlaylist
    /\ export_lost = {}

(***************************************************************************)
(* Playlist check and set-up                                               *)
(***************************************************************************)
\* The header test as a prefix test.
is_m3u8_prefix(file, good_header) ==
    /\ \/ EndsWith(file, <<".", "m", "3", "u">>)
       \/ EndsWith(file, <<".", "m", "3", "u", "8">>)
    /\ StartsWith(StripNL(readline(playlist_text, 1)), good_header)

is_m3u8(file, good_header) ==
    /\ \/ EndsWith(file, <<".", "m", "3", "u">>)
       \/ EndsWith(file, <<".", "m", "3", "u", "8">>)
    /\ StripNL(readline(playlist_text, 1)) = good_header

CheckPlaylist ==
    /\ pc = "start"
    /\ IF is_m3u8(playlist_file, m3u_playlist_header)
       THEN pc' = "directory" /\ fatal' = fatal
       ELSE pc' = "exit" /\ fatal' = "playlist"
    /\ UNCHANGED <<export_lost, playlist_file, playlist_text, audacity, log, line_no, track_number,
                   input_songs_list, song_idx, confirmed, quit_at, disk, output_playlist,
                   written, tagged, error_songs_list, error_playlist>>

\* select_directory and create_directory: either may end the run.
CreateOutputDirectory ==
    /\ pc = "directory"
    /\ \E ok \in BOOLEAN :
          IF ok THEN pc' = "pipe" /\ fatal' = fatal
          ELSE pc' = "exit" /\ fatal' = "directory"
    /\ UNCHANGED <<export_lost, playlist_file, playlist_text, audacity, log, line_no, track_number,
                   input_songs_list, song_idx, confirmed, quit_at, disk, output_playlist,
                   written, tagged, error_songs_list, error_playlist>>

\* The session is started and the operator asked, but no import is requested.
StartPipeNoImport ==
    /\ pc = "pipe"
    /\ audacity' = TRUE
    /\ log' = log \o << Event("Close", 0, <<>>), Event("Prompt", 0, <<>>) >>
    /\ pc' = "handshake"
    /\ UNCHANGED <<export_lost, fatal, playlist_file, playlist_text, line_no, track_number,
                   input_songs_list, song_idx, confirmed, quit_at, disk, output_playlist,
                   written, tagged, error_songs_list, error_playlist>>

\* PipeClient(), Close:, ImportAudio:, then input() waits for the operator.
StartPipe ==
    /\ pc = "pipe"
    /\ audacity' = TRUE
    /\ log' = log \o << Event("Close", 0, <<>>), Event("ImportAudio", 0, <<>>),
                        Event("Prompt", 0, <<>>) >>
    /\ pc' = "handshake"
    /\ UNCHANGED <<export_lost, fatal, playlist_file, playlist_text, line_no, track_number,
                   input_songs_list, song_idx, confirmed, quit_at, disk, output_playlist,
                   written, tagged, error_songs_list, error_playlist>>

\* The operator hits Enter; the reader opens the playlist and reads its first line.
ImportHandshake ==
    /\ pc = "handshake"
    /\ log' = Append(log, Event("Answer", 0, <<>>))
    /\ line_no' = 1
    /\ pc' = "read"
    /\ UNCHANGED <<export_lost, fatal, playlist_file, playlist_text, audacity, track_number,
                   input_songs_list, song_idx, confirmed, quit_at, disk, output_playlist,
                   written, tagged, error_songs_list, error_playlist>>

(***************************************************************************)
(* Reading the playlist into input_songs_list                              *)
(***************************************************************************)
\* The skipped line advances the track number.
ReadOtherLineCounting ==
    /\ pc = "read"
    /\ ~AtEof
    /\ ~StartsWith(readline(playlist_text, line_no), m3u_track_header)
    /\ line_no' = line_no + 1
    /\ track_number' = track_number + 1
    /\ UNCHANGED <<export_lost, pc, fatal, playlist_file, playlist_text, audacity, log,
                   input_songs_list, song_idx, confirmed, quit_at, disk, output_playlist,
                   written, tagged, error_songs_list, error_playlist>>

\* A line that does not start with the track header is skipped.
ReadOtherLine ==
    /\ pc = "read"
    /\ ~AtEof
    /\ ~StartsWith(readline(playlist_text, line_no), m3u_track_header)
    /\ line_no' = line_no + 1
    /\ UNCHANGED <<export_lost, pc, fatal, playlist_file, playlist_text, audacity, log, track_number,
                   input_songs_list, song_idx, confirmed, quit_at, disk, output_playlist,
                   written, tagged, error_songs_list, error_playlist>>

\* A track line is turned into a Song and appended.
ReadSongLine ==
    /\ pc = "read"
    /\ ~AtEof
    /\ \E line \in {readline(playlist_text, line_no)} :
          /\ StartsWith(line, m3u_track_header)
          /\ SongLineParses(line)
          /\ input_songs_list' = Append(input_songs_list, ParseSong(line, track_number + 1))
    /\ track_number' = track_number + 1
    /\ line_no' = line_no + 1
    /\ UNCHANGED <<export_lost, pc, fatal, playlist_file, playlist_text, audacity, log, song_idx,
                   confirmed, quit_at, disk, output_playlist, written, tagged,
                   error_songs_list, error_playlist>>

\* A track line one of the searches does not match, or whose duration int() rejects:
\* .group(1) of None, or int(), raises and nothing catches it.
ReadBadLine ==
    /\ pc = "read"
    /\ ~AtEof
    /\ \E line \in {readline(playlist_text, line_no)} :
          /\ StartsWith(line, m3u_track_header)
          /\ ~SongLineParses(line)
    /\ track_number' = track_number + 1
    /\ pc' = "crash"
    /\ fatal' = "parse"
    /\ UNCHANGED <<export_lost, playlist_file, playlist_text, audacity, log, line_no, input_songs_list,
                   song_idx, confirmed, quit_at, disk, output_playlist, written, tagged,
                   error_songs_list, error_playlist>>

\* readline returned '': the export loop starts.
ReadEnd ==
    /\ pc = "read"
    /\ AtEof
    /\ song_idx' = 1
    /\ pc' = "loop"
    /\ UNCHANGED <<export_lost, fatal, playlist_file, playlist_text, audacity, log, line_no, track_number,
                   input_songs_list, confirmed, quit_at, disk, output_playlist, written,
                   tagged, error_songs_list, error_playlist>>

(***************************************************************************)
(* The export loop                                                         *)
(***************************************************************************)
\* The list walked from its end.
SongAtReversed(k) == input_songs_list[Len(input_songs_list) - k + 1]

\* for song in input_songs_list: the song of the k-th iteration
SongAt(k) == input_songs_list[k]

RECURSIVE Repeat(_, _)
Repeat(e, n) == IF n = 0 THEN <<>> ELSE <<e>> \o Repeat(e, n - 1)

\* The selection is snapped to the previous boundary before the operator is asked.
SelectCommandsSnapEarly(song) ==
    << Event("Select", song.number, <<0, song.runtime>>),
       Event("ZoomSel", song.number, <<>>) >>
    \o Repeat(Event("ZoomIn", song.number, <<>>), ZoomCount)
    \o << Event("SkipSelEnd", song.number, <<>>),
          Event("SelPrevClipBoundaryToCursor", song.number, <<>>),
          Event("Prompt", song.number, get_string_runtime(song.runtime)) >>

\* Commands written before the prompt of a song, then the prompt itself.
SelectCommands(song) ==
    << Event("Select", song.number, <<0, song.runtime>>),
       Event("ZoomSel", song.number, <<>>) >>
    \o Repeat(Event("ZoomIn", song.number, <<>>), ZoomCount)
    \o << Event("SkipSelEnd", song.number, <<>>),
          Event("Prompt", song.number, get_string_runtime(song.runtime)) >>

\* Commands written once the answer is not 'q', up to the export.
SpliceCommands(song, file) ==
    << Event("SelPrevClipBoundaryToCursor", song.number, <<>>),
       Event("Split", song.number, <<>>),
       Event("Export2", song.number, file) >>

\* The clip is deleted but the timeline is not realigned.
TrimCommandsNoAlign(song) == << Event("Delete", song.number, <<>>) >>

\* Commands written after the export.
TrimCommands(song) ==
    << Event("Delete", song.number, <<>>),
       Event("Align_StartToZero", song.number, <<>>) >>

\* The file the export of a song is sent to.
ExportFile(song) == PathJoin(output_directory, WavName(song.track))

SelectSong ==
    /\ pc = "loop"
    /\ song_idx <= Len(input_songs_list)
    /\ log' = log \o SelectCommands(SongAt(song_idx))
    /\ pc' = "prompt"
    /\ UNCHANGED <<export_lost, fatal, playlist_file, playlist_text, audacity, line_no, track_number,
                   input_songs_list, song_idx, confirmed, quit_at, disk, output_playlist,
                   written, tagged, error_songs_list, error_playlist>>

\* choice == 'q': break
PromptQuit ==
    /\ pc = "prompt"
    /\ log' = Append(log, Event("Answer", SongAt(song_idx).number, <<"q">>))
    /\ quit_at' = SongAt(song_idx).number
    /\ pc' = "reconcile"
    /\ UNCHANGED <<export_lost, fatal, playlist_file, playlist_text, audacity, line_no, track_number,
                   input_songs_list, song_idx, confirmed, disk, output_playlist, written,
                   tagged, error_songs_list, error_playlist>>

\* Any other answer: the song is split off, named and sent to export.
PromptConfirm ==
    /\ pc = "prompt"
    /\ \E choice \in Choices \ {<<"q">>} :
          log' = Append(log, Event("Answer", SongAt(song_idx).number, choice))
                    \o SpliceCommands(SongAt(song_idx), ExportFile(SongAt(song_idx)))
    /\ confirmed' = confirmed \cup {SongAt(song_idx).number}
    /\ input_songs_list' =
          [input_songs_list EXCEPT ![song_idx].file = ExportFile(SongAt(song_idx))]
    /\ pc' = "export"
    /\ UNCHANGED <<export_lost, fatal, playlist_file, playlist_text, audacity, line_no, track_number,
                   song_idx, quit_at, disk, output_playlist, written, tagged,
                   error_songs_list, error_playlist>>

\* The loop does not move on to the next song.
TrimSongStay ==
    /\ pc = "export"
    /\ \E produced \in BOOLEAN :
          /\ disk' = IF produced
                     THEN (SongAt(song_idx).file :> [audio |-> SongAt(song_idx).number,
                                                     tags |-> NoTags]) @@ disk
                     ELSE disk
          /\ export_lost' = IF produced THEN export_lost
                            ELSE export_lost \cup {SongAt(song_idx).number}
    /\ log' = log \o TrimCommands(SongAt(song_idx))
    /\ pc' = "loop"
    /\ UNCHANGED <<fatal, playlist_file, playlist_text, audacity, line_no, track_number,
                   input_songs_list, song_idx, confirmed, quit_at, output_playlist, written,
                   tagged, error_songs_list, error_playlist>>

\* The editor writes the file or silently does not; then Delete: and Align_StartToZero:.
TrimSong ==
    /\ pc = "export"
    /\ \E produced \in BOOLEAN :
          /\ disk' = IF produced
                     THEN (SongAt(song_idx).file :> [audio |-> SongAt(song_idx).number,
                                                     tags |-> NoTags]) @@ disk
                     ELSE disk
          /\ export_lost' = IF produced THEN export_lost
                            ELSE export_lost \cup {SongAt(song_idx).number}
    /\ log' = log \o TrimCommands(SongAt(song_idx))
    /\ song_idx' = song_idx + 1
    /\ pc' = "loop"
    /\ UNCHANGED <<fatal, playlist_file, playlist_text, audacity, line_no, track_number,
                   input_songs_list, confirmed, quit_at, output_playlist, written, tagged,
                   error_songs_list, error_playlist>>

\* The list is exhausted.
LoopEnd ==
    /\ pc = "loop"
    /\ song_idx > Len(input_songs_list)
    /\ pc' = "reconcile"
    /\ UNCHANGED <<export_lost, fatal, playlist_file, playlist_text, audacity, log, line_no, track_number,
                   input_songs_list, song_idx, confirmed, quit_at, disk, output_playlist,
                   written, tagged, error_songs_list, error_playlist>>

(***************************************************************************)
(* Checking the exported files, tagging, and the two output playlists      *)
(***************************************************************************)
\* open(output_playlist_file, 'w') and the header line
OpenOutputPlaylist ==
    /\ pc = "reconcile"
    /\ output_playlist' = [exists |-> TRUE, lines |-> <<m3u_playlist_header \o <<NL>>>>]
    /\ song_idx' = 1
    /\ pc' = "check"
    /\ UNCHANGED <<export_lost, fatal, playlist_file, playlist_text, audacity, log, line_no, track_number,
                   input_songs_list, confirmed, quit_at, disk, written, tagged,
                   error_songs_list, error_playlist>>

\* os.path.exists(song.file): the song is written to the output playlist.
CheckPresent ==
    /\ pc = "check"
    /\ song_idx <= Len(input_songs_list)
    /\ exists(SongAt(song_idx).file)
    /\ output_playlist' =
          [output_playlist EXCEPT !.lines = output_playlist.lines \o Repr(SongAt(song_idx))]
    /\ written' = Append(written, SongAt(song_idx).number)
    /\ pc' = "tag"
    /\ UNCHANGED <<export_lost, fatal, playlist_file, playlist_text, audacity, log, line_no, track_number,
                   input_songs_list, song_idx, confirmed, quit_at, disk, tagged,
                   error_songs_list, error_playlist>>

\* The else branch without its append.
CheckMissingDropped ==
    /\ pc = "check"
    /\ song_idx <= Len(input_songs_list)
    /\ ~exists(SongAt(song_idx).file)
    /\ song_idx' = song_idx + 1
    /\ UNCHANGED <<export_lost, pc, fatal, playlist_file, playlist_text, audacity, log, line_no,
                   track_number, input_songs_list, confirmed, quit_at, disk, output_playlist,
                   written, tagged, error_songs_list, error_playlist>>

\* else: error_songs_list.append(song)
CheckMissing ==
    /\ pc = "check"
    /\ song_idx <= Len(input_songs_list)
    /\ ~exists(SongAt(song_idx).file)
    /\ error_songs_list' = Append(error_songs_list, SongAt(song_idx))
    /\ song_idx' = song_idx + 1
    /\ UNCHANGED <<export_lost, pc, fatal, playlist_file, playlist_text, audacity, log, line_no,
                   track_number, input_songs_list, confirmed, quit_at, disk, output_playlist,
                   written, tagged, error_playlist>>

\* The tags main() sets on the file of a song.
SongTags(song) == ("ARTIST" :> <<song.artist>>) @@ ("TITLE" :> <<song.track>>)

\* taglib.File(song.file), the two tags, save()
TagSave ==
    /\ pc = "tag"
    /\ disk' = [disk EXCEPT ![SongAt(song_idx).file].tags = SongTags(SongAt(song_idx)) @@ @]
    /\ tagged' = tagged \cup {SongAt(song_idx).number}
    /\ song_idx' = song_idx + 1
    /\ pc' = "check"
    /\ UNCHANGED <<export_lost, fatal, playlist_file, playlist_text, audacity, log, line_no, track_number,
                   input_songs_list, confirmed, quit_at, output_playlist, written,
                   error_songs_list, error_playlist>>

\* taglib raises: nothing catches it, the with block closes the output playlist.
TagFail ==
    /\ pc = "tag"
    /\ pc' = "crash"
    /\ fatal' = "tag"
    /\ UNCHANGED <<export_lost, playlist_file, playlist_text, audacity, log, line_no, track_number,
                   input_songs_list, song_idx, confirmed, quit_at, disk, output_playlist,
                   written, tagged, error_songs_list, error_playlist>>

\* Every song was checked.
CheckEnd ==
    /\ pc = "check"
    /\ song_idx > Len(input_songs_list)
    /\ pc' = "errors"
    /\ UNCHANGED <<export_lost, fatal, playlist_file, playlist_text, audacity, log, line_no, track_number,
                   input_songs_list, song_idx, confirmed, quit_at, disk, output_playlist,
                   written, tagged, error_songs_list, error_playlist>>

RECURSIVE ReprAll(_)
ReprAll(songs) == IF songs = <<>> THEN <<>> ELSE Repr(Head(songs)) \o ReprAll(Tail(songs))

\* if error_songs_list: the error playlist is written
WriteErrorPlaylist ==
    /\ pc = "errors"
    /\ error_songs_list # <<>>
    /\ error_playlist' =
          [exists |-> TRUE,
           lines |-> <<m3u_playlist_header \o <<NL>>>> \o ReprAll(error_songs_list)]
    /\ pc' = "done"
    /\ UNCHANGED <<export_lost, fatal, playlist_file, playlist_text, audacity, log, line_no, track_number,
                   input_songs_list, song_idx, confirmed, quit_at, disk, output_playlist,
                   written, tagged, error_songs_list>>

\* No failed export: no error playlist.
SkipErrorPlaylist ==
    /\ pc = "errors"
    /\ error_songs_list = <<>>
    /\ pc' = "done"
    /\ UNCHANGED <<export_lost, fatal, playlist_file, playlist_text, audacity, log, line_no, track_number,
                   input_songs_list, song_idx, confirmed, quit_at, disk, output_playlist,
                   written, tagged, error_songs_list, error_playlist>>

Next ==
    \/ CheckPlaylist
    \/ CreateOutputDirectory
    \/ StartPipe
    \/ ImportHandshake
    \/ ReadOtherLine
    \/ ReadSongLine
    \/ ReadBadLine
    \/ ReadEnd
    \/ SelectSong
    \/ PromptQuit
    \/ PromptConfirm
    \/ TrimSong
    \/ LoopEnd
    \/ OpenOutputPlaylist
    \/ CheckPresent
    \/ CheckMissing
    \/ TagSave
    \/ TagFail
    \/ CheckEnd
    \/ WriteErrorPlaylist
    \/ SkipErrorPlaylist

Spec == Init /\ [][Next]_vars

\* Steps that wait for the operator: the two input() calls.
OperatorStep == ImportHandshake \/ PromptQuit \/ PromptConfirm

\* Steps main() takes by itself.
ProgramStep ==
    \/ CheckPlaylist
    \/ CreateOutputDirectory
    \/ StartPipe
    \/ ReadOtherLine
    \/ ReadSongLine
    \/ ReadBadLine
    \/ ReadEnd
    \/ SelectSong
    \/ TrimSong
    \/ LoopEnd
    \/ OpenOutputPlaylist
    \/ CheckPresent
    \/ CheckMissing
    \/ TagSave
    \/ TagFail
    \/ CheckEnd
    \/ WriteErrorPlaylist
    \/ SkipErrorPlaylist

\* main() runs on whenever it does not wait for the operator.
SpecLive == Init /\ [][Next]_vars /\ WF_vars(ProgramStep)

(***************************************************************************)
(* Runs over playlists with one fixed track line and one track line whose  *)
(* text after "#EXTINF:5," is any short string over LineAlphabet           *)
(***************************************************************************)
\* A digit, the two separator characters and the comma.
LineAlphabet == {"5", ",", " ", "-"}

GeneratedLines ==
    { m3u_track_header \o <<"5", ",">> \o body \o <<NL>> :
         body \in SeqsUpTo(LineAlphabet, MaxBody) }

LineTexts ==
    { << <<"#", "E", "X", "T", "M", "3", "U", NL>>,
         TrackLine(<<"7", "0">>, <<"b">>, <<"s", "o", "n", "g">>),
         line >> : line \in GeneratedLines }

LineInit ==
    /\ pc = "start"
    /\ fatal = ""
    /\ playlist_file = <<"p", ".", "m", "3", "u", "8">>
    /\ playlist_text \in LineTexts
    /\ audacity = FALSE
    /\ log = <<>>
    /\ line_no = 0
    /\ track_number = 0
    /\ input_songs_list = <<>>
    /\ song_idx = 0
    /\ confirmed = {}
    /\ quit_at = 0
    /\ disk = [p \in {} |-> ForeignFile]
    /\ output_playlist = NoPlaylist
    /\ written = <<>>
    /\ tagged = {}
    /\ error_songs_list = <<>>
    /\ error_playlist = NoPlaylist
    /\ export_lost = {}

SpecLine == LineInit /\ [][Next]_vars

(***************************************************************************)
(* The first prompt of runs over one-track playlists of every duration up  *)
(* to MaxDuration, from the state in which the export loop starts          *)
(***************************************************************************)
DurationTexts ==
    { << <<"#", "E", "X", "T", "M", "3", "U", NL>>,
         TrackLine(IntToStr(d), <<"a">>, <<"S", "o", "n", "g">>) >> : d \in 0..MaxDuration }

\* The state ReadEnd leaves after such a playlist was checked and read.
HintInit ==
    /\ pc = "loop"
    /\ fatal = ""
    /\ playlist_file = <<"p", ".", "m", "3", "u", "8">>
    /\ playlist_text \in DurationTexts
    /\ audacity = TRUE
    /\ log = << Event("Close", 0, <<>>), Event("ImportAudio", 0, <<>>),
                Event("Prompt", 0, <<>>), Event("Answer", 0, <<>>) >>
    /\ line_no = Len(playlist_text) + 1
    /\ input_songs_list = ReadSongs(playlist_text, 0).songs
    /\ track_number = Len(input_songs_list)
    /\ song_idx = 1
    /\ confirmed = {}
    /\ quit_at = 0
    /\ disk = [p \in {} |-> ForeignFile]
    /\ output_playlist = NoPlaylist
    /\ written = <<>>
    /\ tagged = {}
    /\ error_songs_list = <<>>
    /\ error_playlist = NoPlaylist
    /\ export_lost = {}

HintNext == SelectSong

SpecHint == HintInit /\ [][HintNext]_vars

(***************************************************************************)
(* Properties                                                              *)
(***************************************************************************)
Positions(op) == {i \in DOMAIN log : log[i].op = op}

EditorPositions == {i \in DOMAIN log : log[i].op \in EditorOps}

\* The events of the log that belong to song number n, in order.
EventsOf(n, l) == SelectSeq(l, LAMBDA e : e.track = n)

Ops(events) == [i \in DOMAIN events |-> events[i].op]

IsPrefix(a, b) == Len(a) <= Len(b) /\ SubSeq(b, 1, Len(a)) = a

SongNumbers == 1..Len(input_songs_list)

WrittenSet == Range(written)

ErrorSet == {error_songs_list[i].number : i \in DOMAIN error_songs_list}

\* The checking pass is over.
Reconciled == pc \in {"errors", "done"}

\* C1: the Export2 commands in the log carry strictly increasing track numbers, each
\* the position of its song in the track list: no track is exported twice and none
\* after a track with a higher index.
C1_ExportOrder ==
    \A i \in Positions("Export2") :
        /\ log[i].track \in SongNumbers
        /\ input_songs_list[log[i].track].number = log[i].track
        /\ \A j \in Positions("Export2") : i < j => log[i].track < log[j].track

\* Three tracks were exported.
C1_Witness == Cardinality(Positions("Export2")) >= 3

\* The events of one track whose prompt is confirmed.
FullTrackOps ==
    << "Select", "ZoomSel",
       "ZoomIn", "ZoomIn", "ZoomIn", "ZoomIn", "ZoomIn", "ZoomIn", "ZoomIn",
       "SkipSelEnd", "Prompt", "Answer",
       "SelPrevClipBoundaryToCursor", "Split", "Export2", "Delete", "Align_StartToZero" >>

DestructiveOps ==
    {"SelPrevClipBoundaryToCursor", "Split", "Export2", "Delete", "Align_StartToZero"}

\* C2: the events of every track are a prefix of Select(0, duration), ZoomSel, seven
\* ZoomIn, SkipSelEnd, prompt, answer, SelPrevClipBoundaryToCursor, Split, Export2,
\* Delete, Align_StartToZero; and each of the last five is preceded by an answer
\* other than 'q' to the prompt of its own track.
C2_TrackSequence ==
    /\ \A n \in SongNumbers :
          LET ev == EventsOf(n, log)
          IN  /\ IsPrefix(Ops(ev), FullTrackOps)
              /\ ev # <<>> => ev[1].arg = <<0, input_songs_list[n].runtime>>
    /\ \A i \in DOMAIN log : log[i].op \in DestructiveOps => log[i].track \in confirmed
    /\ \A n \in confirmed :
          LET ev == EventsOf(n, log)
          IN  \A i \in DOMAIN ev :
                 ev[i].op \in DestructiveOps =>
                     \E j \in 1..(i - 1) : ev[j].op = "Answer" /\ ev[j].arg # <<"q">>

\* Two tracks ran through their whole sequence.
C2_Witness ==
    \E m, n \in SongNumbers :
        m # n /\ Ops(EventsOf(m, log)) = FullTrackOps /\ Ops(EventsOf(n, log)) = FullTrackOps

\* C3: once 'q' was typed at the prompt of track k, that answer stays the last event
\* (no editor command follows), track k and the later tracks keep no export path,
\* and when the run is done every track was checked, every track before k whose file
\* exists is in the success set and track k and every later one is in the failure
\* set, not in the success set.
C3_AbortSalvage ==
    quit_at # 0 =>
        /\ log[Len(log)].op = "Answer" /\ log[Len(log)].track = quit_at
        /\ \A n \in SongNumbers : n >= quit_at => input_songs_list[n].file = NoFile
        /\ pc = "done" =>
              /\ WrittenSet \cup ErrorSet = SongNumbers
              /\ \A n \in SongNumbers :
                    /\ (n < quit_at /\ exists(input_songs_list[n].file)) => n \in WrittenSet
                    /\ n >= quit_at => (n \in ErrorSet /\ n \notin WrittenSet)

\* C4: after the checking pass every track is in exactly one of the success set and
\* the failure set, once.
C4_Partition ==
    Reconciled =>
        /\ WrittenSet \cap ErrorSet = {}
        /\ WrittenSet \cup ErrorSet = SongNumbers
        /\ Len(written) = Cardinality(WrittenSet)
        /\ Len(error_songs_list) = Cardinality(ErrorSet)

\* A run with an abort ended with tracks in both sets.
C4_Witness ==
    pc = "done" /\ written # <<>> /\ error_songs_list # <<>> /\ quit_at # 0

\* C5: after the checking pass a track without export path is a failure whatever is
\* on disk, a track with a path but no file is a failure, and a success has a path
\* and a file.
C5_Classification ==
    Reconciled =>
        \A n \in SongNumbers :
            LET file == input_songs_list[n].file
            IN  /\ file = NoFile => (n \in ErrorSet /\ n \notin WrittenSet)
                /\ (file # NoFile /\ ~exists(file)) => (n \in ErrorSet /\ n \notin WrittenSet)
                /\ n \in WrittenSet => (file # NoFile /\ exists(file))

\* C6: when the run is done, the file of every track of the success set holds that
\* track's audio and the saved tags artist, title and track number of that track.
C6_Tagged ==
    pc = "done" =>
        \A n \in WrittenSet :
            LET song == input_songs_list[n]
            IN  /\ exists(song.file)
                /\ disk[song.file].audio = n
                /\ DOMAIN disk[song.file].tags = {"ARTIST", "TITLE", "TRACKNUMBER"}
                /\ disk[song.file].tags["ARTIST"] = <<song.artist>>
                /\ disk[song.file].tags["TITLE"] = <<song.track>>
                /\ disk[song.file].tags["TRACKNUMBER"] = <<IntToStr(n)>>

\* C7: a tagging failure ends the run at that track: no later track is checked, no
\* error playlist is written, and the output playlist holds no track whose tags
\* were not saved.
C7_TagFailureFatal ==
    fatal = "tag" =>
        /\ pc = "crash"
        /\ \A n \in SongNumbers : n > song_idx => n \notin WrittenSet \cup ErrorSet
        /\ ~error_playlist.exists
        /\ \A n \in WrittenSet : n \in tagged

\* C8: two different exported tracks never share an export path, and the file of a
\* track in the success set holds the audio of that track's own export.
C8_UniqueFiles ==
    /\ \A m, n \in confirmed :
          m # n => input_songs_list[m].file # input_songs_list[n].file
    /\ \A n \in WrittenSet \cap confirmed :
          disk[input_songs_list[n].file].audio = n

\* C9: when a track line that does not match the pattern ends the run, no editor
\* session exists and no command was sent.
C9_FormatErrorBeforeEditor ==
    fatal = "parse" => (~audacity /\ EditorPositions = {})

\* The first line of the playlist without its line end.
FirstLineText ==
    IF playlist_text = <<>> THEN <<>>
    ELSE IF playlist_text[1][Len(playlist_text[1])] = NL
         THEN SubSeq(playlist_text[1], 1, Len(playlist_text[1]) - 1)
         ELSE playlist_text[1]

BadHeader == FirstLineText # <<"#", "E", "X", "T", "M", "3", "U">>

\* C10: with a first line other than #EXTM3U the run is either not yet checked or
\* ended by the playlist check; no line was read, no track parsed, no editor session
\* created and nothing sent or asked.
C10_HeaderRejected ==
    BadHeader =>
        /\ pc \in {"start", "exit"}
        /\ pc = "exit" => fatal = "playlist"
        /\ line_no = 0 /\ track_number = 0 /\ input_songs_list = <<>>
        /\ ~audacity
        /\ log = <<>>

\* A playlist named .m3u8 whose first line is #EXTM3U8 was rejected.
C10_Witness ==
    /\ pc = "exit"
    /\ EndsWith(playlist_file, <<".", "m", "3", "u", "8">>)
    /\ FirstLineText = <<"#", "E", "X", "T", "M", "3", "U", "8">>
    /\ Len(playlist_text) > 1

\* What a playlist records of a song, with the song's index.
TrackOf(song) == <<song.number, song.artist, song.track, song.runtime>>

TracksOf(songs) == [i \in DOMAIN songs |-> TrackOf(songs[i])]

\* The songs written to the output playlist, in the order written.
WrittenSongs == [i \in DOMAIN written |-> input_songs_list[written[i]]]

\* C11: when the run is done, reading the output playlist, and the error playlist if
\* one was written, with the reader of main() yields in order the index, artist,
\* title and duration of the songs that were written to it.
C11_RoundTrip ==
    pc = "done" =>
        /\ ReadSongs(output_playlist.lines, 0).ok
        /\ TracksOf(ReadSongs(output_playlist.lines, 0).songs) = TracksOf(WrittenSongs)
        /\ error_playlist.exists =>
              /\ ReadSongs(error_playlist.lines, 0).ok
              /\ TracksOf(ReadSongs(error_playlist.lines, 0).songs) = TracksOf(error_songs_list)

\* Positions at which pat occurs in s.
Find(s, pat) == {p \in DOMAIN s : MatchAt(s, pat, p)}

Max(S) == CHOOSE x \in S : \A y \in S : y <= x

\* s without a final newline.
Chomp(s) == IF s # <<>> /\ s[Len(s)] = NL THEN SubSeq(s, 1, Len(s) - 1) ELSE s

\* The text of s after the first occurrence of pat.
AfterFirst(s, pat) == Slice(s, Min(Find(s, pat)) + Len(pat), Len(s))

\* A playlist read back gives one record per written song, in order, with the
\* written duration and artist, the position in that playlist as index, and as
\* title the text after the first '- ' of the written artist - title text.
ReadsBack(playlist, songs) ==
    LET back == ReadSongs(playlist.lines, 0)
    IN  /\ back.ok
        /\ Len(back.songs) = Len(songs)
        /\ \A i \in DOMAIN songs :
              /\ back.songs[i].number = i
              /\ back.songs[i].runtime = songs[i].runtime
              /\ back.songs[i].artist = songs[i].artist
              /\ back.songs[i].track =
                    AfterFirst(songs[i].artist \o <<" ", "-", " ">> \o songs[i].track, <<"-", " ">>)
              /\ Find(songs[i].artist \o <<" ">>, <<"-", " ">>) = {} =>
                    back.songs[i].track = songs[i].track

\* C11 (amended): when the run is done, reading the output playlist, and the error
\* playlist if one was written, with the reader of main() yields in order one record
\* per written song with the written duration and artist; its index is its position
\* in that playlist, not the written song's index; its title is the written title
\* when the written artist followed by a space holds no '- ', and otherwise the text
\* after the first '- ' of the written line.
C11_RoundTripAmended ==
    pc = "done" =>
        /\ ReadsBack(output_playlist, WrittenSongs)
        /\ error_playlist.exists => ReadsBack(error_playlist, error_songs_list)

\* Only the second song reached the output playlist, and its artist holds a '- '.
C11_Witness ==
    /\ pc = "done"
    /\ written = <<2>>
    /\ Find(input_songs_list[2].artist \o <<" ">>, <<"-", " ">>) # {}

\* The track line the n-th song was read from (every generated playlist holds its
\* track lines right after the first line).
LineOfSong(n) == playlist_text[n + 1]

\* C16: the title of every song is the text after the last ' - ' of its line, the
\* artist the text between the first comma and that separator, the duration the
\* integer between the header and the first comma.
C16_SplitAtLast ==
    \A n \in DOMAIN input_songs_list :
        LET line == Chomp(LineOfSong(n))
            comma == Min(Find(line, <<",">>))
            sep == Max(Find(line, <<" ", "-", " ">>))
        IN  /\ Find(line, <<" ", "-", " ">>) # {}
            /\ input_songs_list[n].track = Slice(line, sep + 3, Len(line))
            /\ input_songs_list[n].artist = Slice(line, comma + 1, sep - 1)
            /\ input_songs_list[n].runtime =
                  StrToInt(Slice(line, Len(m3u_track_header) + 1, comma - 1))

\* C16 (amended): the title of every song is the text after the first '- ' of its
\* line, the artist the text between the first comma and the first ' -' that starts
\* at least two characters after that comma, the duration the integer between the
\* header and the first comma.
C16_SplitAtFirst ==
    \A n \in DOMAIN input_songs_list :
        LET line == Chomp(LineOfSong(n))
            comma == Min(Find(line, <<",">>))
            dash == Min({p \in Find(line, <<" ", "-">>) : p >= comma + 2})
        IN  /\ input_songs_list[n].track = AfterFirst(line, <<"-", " ">>)
            /\ input_songs_list[n].artist = Slice(line, comma + 1, dash - 1)
            /\ input_songs_list[n].runtime =
                  StrToInt(Slice(line, Len(m3u_track_header) + 1, comma - 1))

\* A song was read from a line whose first '- ' is not that of its last ' - '.
C16_Witness ==
    \E n \in DOMAIN input_songs_list :
        LET line == Chomp(LineOfSong(n))
        IN  /\ Find(line, <<" ", "-", " ">>) # {}
            /\ Min(Find(line, <<"-", " ">>)) < Max(Find(line, <<" ", "-", " ">>)) + 1

\* C12: once the checking pass has begun the output playlist exists; when the run is
\* done the error playlist exists exactly if the failure set is not empty; and after
\* a run with no track, or with 'q' at the first prompt, the output playlist holds
\* the header line alone.
C12_Manifests ==
    /\ (pc \in {"check", "tag", "errors", "done"} \/ fatal = "tag") => output_playlist.exists
    /\ pc = "done" => (error_playlist.exists <=> ErrorSet # {})
    /\ (pc = "done" /\ (input_songs_list = <<>> \/ quit_at = 1)) =>
          output_playlist.lines = << <<"#", "E", "X", "T", "M", "3", "U", NL>> >>

\* The two lines of an entry follow each other in a playlist.
HoldsEntry(playlist, song) ==
    \E k \in 1..(Len(playlist.lines) - 1) :
        playlist.lines[k] = Repr(song)[1] /\ playlist.lines[k + 1] = Repr(song)[2]

\* C13: when the export of a confirmed track i wrote no file, the run goes on: every
\* later track the operator confirms gets its whole command sequence, and without a
\* 'q' every later track is confirmed; when the run is done track i is in the
\* failure set, not in the success set, and its entry is in the error playlist.
C13_SilentFailure ==
    pc = "done" =>
        \A i \in export_lost :
            /\ \A n \in SongNumbers :
                  n > i => /\ quit_at = 0 => n \in confirmed
                           /\ n \in confirmed => Ops(EventsOf(n, log)) = FullTrackOps
            /\ i \in ErrorSet
            /\ i \notin WrittenSet
            /\ error_playlist.exists
            /\ HoldsEntry(error_playlist, input_songs_list[i])

\* C14: ImportAudio is written at most once, exactly once as soon as the editor
\* session exists, and before every event of a track (its Select first) come the
\* ImportAudio command and, after it, the operator's answer to the import prompt.
C14_ImportOnce ==
    /\ Cardinality(Positions("ImportAudio")) <= 1
    /\ audacity => Cardinality(Positions("ImportAudio")) = 1
    /\ {i \in DOMAIN log : log[i].track > 0} # {} =>
          \E j \in Positions("ImportAudio") :
              \E k \in {i \in Positions("Answer") : log[i].track = 0} :
                  /\ j < k
                  /\ \A i \in DOMAIN log : log[i].track > 0 => k < i

\* The Select commands of two tracks were written.
C14_Witness == Cardinality(Positions("Select")) >= 2

\* C15: the events of the tracks follow each other in track order without
\* interleaving, and right before the Select of track n + 1 come the Delete and the
\* Align_StartToZero of track n.
C15_Sequential ==
    /\ \A i \in 1..(Len(log) - 1) : log[i].track <= log[i + 1].track
    /\ \A i \in Positions("Select") :
          log[i].track > 1 =>
              /\ i > 2
              /\ log[i - 2].op = "Delete" /\ log[i - 2].track = log[i].track - 1
              /\ log[i - 1].op = "Align_StartToZero" /\ log[i - 1].track = log[i].track - 1

\* The third track was selected.
C15_Witness == \E i \in Positions("Select") : log[i].track = 3

\* Numbers of the lines that start with the track header.
MarkerLineNos == {i \in DOMAIN playlist_text : StartsWith(playlist_text[i], m3u_track_header)}

\* Number of the k-th line that starts with the track header.
KthMarkerLine(k) ==
    CHOOSE i \in MarkerLineNos : Cardinality({j \in MarkerLineNos : j < i}) = k - 1

\* The Song the reader builds from each body line it can parse, before numbering.
SongOfLine ==
    [line \in {l \in BodyLines : StartsWith(l, m3u_track_header) /\ SongLineParses(l)} |->
        ParseSong(line, 0)]

\* C17: the k-th song of the list has index k and was read from the k-th line that
\* starts with the track header; while the reader runs the list holds one song per
\* such line already read, and after it every such line has its song.
C17_DenseIndices ==
    /\ \A k \in DOMAIN input_songs_list :
          /\ input_songs_list[k].number = k
          /\ k <= Cardinality(MarkerLineNos)
          /\ TrackOf(input_songs_list[k]) =
                TrackOf([SongOfLine[playlist_text[KthMarkerLine(k)]] EXCEPT !.number = k])
    /\ pc = "read" =>
          /\ Len(input_songs_list) = Cardinality({i \in MarkerLineNos : i < line_no})
          /\ track_number = Len(input_songs_list)
    /\ pc \in {"loop", "prompt", "export", "reconcile", "check", "tag", "errors", "done"} =>
          Len(input_songs_list) = Cardinality(MarkerLineNos)

\* Two songs were read around a line without track header.
C17_Witness ==
    /\ pc = "loop"
    /\ Len(input_songs_list) = 2
    /\ MarkerLineNos = {2, 4}

RECURSIVE DecimalValue(_)
\* The number a run of decimal digits denotes.
DecimalValue(s) ==
    IF s = <<>> THEN 0
    ELSE 10 * DecimalValue(SubSeq(s, 1, Len(s) - 1))
         + (CHOOSE v \in 0..9 : Digits[v + 1] = s[Len(s)])

AllDigits(s) == \A i \in DOMAIN s : s[i] \in Range(Digits)

\* C18: the hint of every prompt of a track with duration d >= 0 is the decimal
\* numeral of d div 60, a colon, and exactly two digits that denote d mod 60, a
\* number of 0..59; 185 seconds give 3:05.
C18_Hint ==
    \A i \in Positions("Prompt") :
        (log[i].track > 0 /\ input_songs_list[log[i].track].runtime >= 0) =>
            LET d == input_songs_list[log[i].track].runtime
                hint == log[i].arg
                colon == Min(Find(hint, <<":">>))
                minutes == Slice(hint, 1, colon - 1)
                seconds == Slice(hint, colon + 1, Len(hint))
            IN  /\ Cardinality(Find(hint, <<":">>)) = 1
                /\ minutes # <<>> /\ AllDigits(minutes)
                /\ Len(minutes) > 1 => minutes[1] # "0"
                /\ DecimalValue(minutes) = d \div 60
                /\ Len(seconds) = 2 /\ AllDigits(seconds)
                /\ DecimalValue(seconds) = d % 60
                /\ DecimalValue(seconds) \in 0..59
                /\ d = 185 => hint = <<"3", ":", "0", "5">>

\* The prompt of a track of 185 seconds was shown.
C18_Witness ==
    \E i \in Positions("Prompt") :
        log[i].track > 0 /\ input_songs_list[log[i].track].runtime = 185

\* The run has ended.
Terminated == pc \in {"done", "exit", "crash"}

\* main() waits in input().
AtPrompt == pc \in {"handshake", "prompt"}

\* The reader reached the end of the playlist: the track list is complete.
ListRead == song_idx > 0

====
